---- MODULE Spec2Model ----
(***************************************************************************)
(* A model of scripts/lsm_to_npz.py: the per-channel processing pipeline   *)
(* (subtract_bg, normalize, clean), the single-file conversion             *)
(* (convert_one), file discovery (discover_files) and the command-line     *)
(* driver (main).                                                          *)
(*                                                                         *)
(* Numbers.  A Python/numpy float is a record [k, n, d]: k = "fin" is the  *)
(* rational n/d in lowest terms with d > 0, k = "nan" is NaN and k = "inf" *)
(* is +Inf (n = 1) or -Inf (n = -1).  Arithmetic is exact: float32         *)
(* rounding is not modelled.  Source samples are finite integers (the      *)
(* integer sample types of LSM/TIFF stacks).                               *)
(*                                                                         *)
(* Arrays.  An n-dimensional array is a record [shape, data]: shape is the *)
(* tuple of extents and data maps every 0-based index tuple to an element. *)
(***************************************************************************)
EXTENDS Integers, Sequences, FiniteSets, TLC

\* ------------------------------------------------------------------------
\* Bounds of the model
\* ------------------------------------------------------------------------
MaxZ == 2
MaxC == 4
MaxY == 2
MaxX == 3
MaxDs == 3
MaxSigma == 1
MaxVal == 4
MaxSeed == 2
MaxFiles == 3

\* ------------------------------------------------------------------------
\* Floats
\* ------------------------------------------------------------------------
Abs(i) == IF i < 0 THEN -i ELSE i

RECURSIVE GCD(_, _)
GCD(a, b) == IF b = 0 THEN a ELSE GCD(b, a % b)

\* n/d with the common divisor g of n and d taken out, d made positive
Reduced(n, d, g) ==
    [k |-> "fin", n |-> (IF d < 0 THEN -n ELSE n) \div g, d |-> Abs(d) \div g]

\* the float n/d (d # 0), in lowest terms
Rat(n, d) == Reduced(n, d, GCD(Abs(n), Abs(d)))

NaN == [k |-> "nan", n |-> 0, d |-> 0]
PInf == [k |-> "inf", n |-> 1, d |-> 0]
NInf == [k |-> "inf", n |-> -1, d |-> 0]

\* a + s * b over the common denominator, g = gcd(a.d, b.d)
AddOver(a, b, s, g) ==
    Rat(a.n * (b.d \div g) + s * b.n * (a.d \div g), a.d * (b.d \div g))

FAdd(a, b) == AddOver(a, b, 1, GCD(a.d, b.d))
FSub(a, b) == AddOver(a, b, -1, GCD(a.d, b.d))

\* (n1/d1) * (n2/d2), g1 = gcd(n1, d2), g2 = gcd(n2, d1)
MulOver(n1, d1, n2, d2, g1, g2) == Rat((n1 \div g1) * (n2 \div g2), (d1 \div g2) * (d2 \div g1))

FMul(a, b) == MulOver(a.n, a.d, b.n, b.d, GCD(Abs(a.n), b.d), GCD(Abs(b.n), a.d))

\* numpy true division of finite floats: x/0 is +-Inf, 0/0 is NaN
FDiv(a, b) ==
    IF b.n = 0
    THEN IF a.n = 0 THEN NaN ELSE IF a.n > 0 THEN PInf ELSE NInf
    ELSE MulOver(a.n, a.d, b.d, b.n, GCD(Abs(a.n), Abs(b.n)), GCD(b.d, a.d))

FLess(a, b) == a.n * b.d < b.n * a.d
FLeq(a, b) == a.n * b.d <= b.n * a.d
FFloor(a) == a.n \div a.d

\* ------------------------------------------------------------------------
\* Arrays
\* ------------------------------------------------------------------------
RECURSIVE Indices(_)
Indices(shape) ==
    IF shape = <<>> THEN {<<>>}
    ELSE {<<i>> \o t : i \in 0..(Head(shape) - 1), t \in Indices(Tail(shape))}

\* f as a table: the same function, its value at every argument worked out once
\* (a function constructor is otherwise worked out again at each application)
Tabulated(f) == f @@ <<>>

Array(shape, f(_)) == [shape |-> shape, data |-> Tabulated([i \in Indices(shape) |-> f(i)])]

\* arr.astype(np.float32) of an integer array
AsFloat(arr) == Array(arr.shape, LAMBDA i : Rat(arr.data[i], 1))

\* a[::step] along one axis of extent n: the number of positions kept, and
\* the source position of output position i (step > 0 walks up from 0,
\* step < 0 walks down from n - 1)
SliceLen(n, step) == (n + Abs(step) - 1) \div Abs(step)
SlicePos(n, step, i) == IF step > 0 THEN i * step ELSE (n - 1) + i * step

\* np.zeros_like(arr, dtype=np.float32)
ZerosLike(arr) == Array(arr.shape, LAMBDA i : Rat(0, 1))

\* np.clip(x, 0, 1) of one element: NaN stays NaN, +-Inf is clipped
Clip01(x) ==
    IF x.k = "nan" THEN NaN
    ELSE IF x.k = "inf" THEN (IF x.n > 0 THEN Rat(1, 1) ELSE Rat(0, 1))
    ELSE IF x.n < 0 THEN Rat(0, 1)
    ELSE IF x.n > x.d THEN Rat(1, 1)
    ELSE x

\* the i-th smallest element (0-based) of a float array, as in sorted(arr.flat)[i]
Kth(arr, i) ==
    CHOOSE v \in {arr.data[j] : j \in DOMAIN arr.data} :
        /\ Cardinality({j \in DOMAIN arr.data : FLess(arr.data[j], v)}) <= i
        /\ i < Cardinality({j \in DOMAIN arr.data : FLeq(arr.data[j], v)})

\* a + (b - a) * t
Lerp(a, b, t) == FAdd(a, FMul(FSub(b, a), t))

\* the value at the virtual index idx of the sorted elements (n of them),
\* interpolated between the two nearest ranks
AtVirtualIndex(arr, n, idx) ==
    Lerp(Kth(arr, FFloor(idx)),
         Kth(arr, IF FFloor(idx) + 1 > n - 1 THEN n - 1 ELSE FFloor(idx) + 1),
         FSub(idx, Rat(FFloor(idx), 1)))

\* virtual index q/100 * (n - 1)
PercentileOf(arr, q, n) == AtVirtualIndex(arr, n, FMul(FDiv(q, Rat(100, 1)), Rat(n - 1, 1)))

\* np.percentile(arr, q), method "linear"
Percentile(arr, q) == PercentileOf(arr, q, Cardinality(DOMAIN arr.data))

\* the default percentiles of normalize(img, lo=0.5, hi=99.5)
LoPct == Rat(1, 2)
HiPct == Rat(199, 2)

\* ------------------------------------------------------------------------
\* Image preprocessing
\* ------------------------------------------------------------------------
\* normalize without the guard of line 56
Rescale_unguarded(img, lo_v, hi_v) ==
    Array(img.shape,
          LAMBDA i : Clip01(FDiv(FSub(img.data[i], lo_v), FSub(hi_v, lo_v))))

\* lines 56-59 of normalize, given the two percentile values
Rescale(img, lo_v, hi_v) ==
    IF hi_v = lo_v
    THEN ZerosLike(img)
    ELSE Array(img.shape,
               LAMBDA i : Clip01(FDiv(FSub(img.data[i], lo_v), FSub(hi_v, lo_v))))

normalize(img) == Rescale(img, Percentile(img, LoPct), Percentile(img, HiPct))

\* scipy.ndimage.gaussian_filter: the kernel of standard deviation sigma,
\* truncated at radius int(4.0 * sigma + 0.5); entry k + 1 is the weight of
\* offset +-k, exp(-k^2 / (2 sigma^2)) in tenths (the weights are divided by
\* their sum when applied)
GaussKernel(sigma) ==
    CASE sigma = 1 -> <<10, 6, 1, 0, 0>>
      [] sigma = 2 -> <<10, 9, 6, 3, 1, 0, 0, 0, 0>>
      [] sigma = 3 -> <<10, 9, 8, 6, 4, 2, 1, 1, 0, 0, 0, 0, 0>>

RECURSIVE SeqSum(_)
SeqSum(s) == IF s = <<>> THEN 0 ELSE Head(s) + SeqSum(Tail(s))

RECURSIVE FSum(_)
FSum(s) == IF s = <<>> THEN Rat(0, 1) ELSE FAdd(Head(s), FSum(Tail(s)))

\* mode="reflect": (d c b a | a b c d | d c b a)
Reflect(i, n) == IF i % (2 * n) < n THEN i % (2 * n) ELSE 2 * n - 1 - (i % (2 * n))

\* index i of a 2-D array moved by k along `axis` (1 or 2), reflected at the edges
Shifted(shape, axis, i, k) ==
    IF axis = 1 THEN <<Reflect(i[1] + k, shape[1]), i[2]>>
    ELSE <<i[1], Reflect(i[2] + k, shape[2])>>

\* one pass of the separable filter along `axis` of a 2-D array: kernel w of
\* radius R and sum W
Correlate1d(arr, axis, w, R, W) ==
    Array(arr.shape,
          LAMBDA i : FSum(Tabulated([t \in 1..(2 * R + 1) |->
                             FMul(Rat(w[Abs(t - 1 - R) + 1], W),
                                  arr.data[Shifted(arr.shape, axis, i, t - 1 - R)])])))

Filter2d(arr, w, R, W) == Correlate1d(Correlate1d(arr, 1, w, R, W), 2, w, R, W)

KernelSum(w) == w[1] + 2 * SeqSum(Tail(w))

\* the largest offset whose weight is not zero: the taps beyond it add nothing
Support(w) == CHOOSE k \in 0..(Len(w) - 1) : w[k + 1] # 0 /\ \A j \in (k + 1)..(Len(w) - 1) : w[j + 1] = 0

FilterWith(arr, w) == Filter2d(arr, w, Support(w), KernelSum(w))

gaussian_filter(arr, sigma) == FilterWith(arr, GaussKernel(sigma))

\* x[x < 0] = 0 of one element
FloorZero(x) == IF x.n < 0 THEN Rat(0, 1) ELSE x

\* out = img - bg; out[out < 0] = 0
SubtractFloored(img, bg) ==
    Array(img.shape, LAMBDA i : FloorZero(FSub(img.data[i], bg.data[i])))

subtract_bg(img, sigma) ==
    IF sigma # 0 /\ sigma > 0
    THEN SubtractFloored(AsFloat(img), gaussian_filter(AsFloat(img), sigma))
    ELSE AsFloat(img)

\* ------------------------------------------------------------------------
\* Core conversion logic
\* ------------------------------------------------------------------------
\* numpy raises IndexError for an index outside [-C, C - 1]
ChannelInRange(vol, ch) == -vol.shape[2] <= ch /\ ch < vol.shape[2]

\* vol[z, ch] of a 4-D array: the 2-D plane; a negative ch counts from the end
Plane(vol, z, ch) ==
    Array(<<vol.shape[3], vol.shape[4]>>,
          LAMBDA i : vol.data[<<z, IF ch < 0 THEN vol.shape[2] + ch ELSE ch>> \o i])

\* stack[z] of a 3-D array
Slice(stack, z) == Array(Tail(stack.shape), LAMBDA i : stack.data[<<z>> \o i])

\* np.stack(planes, axis=0) of a sequence of equally shaped 2-D arrays
Stack(planes) ==
    Array(<<Len(planes)>> \o planes[1].shape,
          LAMBDA i : planes[i[1] + 1].data[Tail(i)])

\* line 108: subtract_bg on every plane of channel ch
SubtractEach(vol, ch, sigma) ==
    Stack(Tabulated([z \in 1..vol.shape[1] |-> subtract_bg(Plane(vol, z - 1, ch), sigma)]))

\* line 109: normalize on every plane of the stack
NormalizeEach(stack) ==
    Stack(Tabulated([z \in 1..stack.shape[1] |-> normalize(Slice(stack, z - 1))]))

PerSlice(vol, ch, sigma) == NormalizeEach(SubtractEach(vol, ch, sigma))

\* a downsampling that keeps whole ds x ds blocks only and drops the remainder
Downsample_block(stack, ds) ==
    Array(<<stack.shape[1], stack.shape[2] \div Abs(ds), stack.shape[3] \div Abs(ds)>>,
          LAMBDA i : stack.data[<<i[1], SlicePos(stack.shape[2], ds, i[2]),
                                  SlicePos(stack.shape[3], ds, i[3])>>])

\* line 110: stack[:, ::ds, ::ds] of a 3-D array, ds # 0
Downsample(stack, ds) ==
    Array(<<stack.shape[1], SliceLen(stack.shape[2], ds), SliceLen(stack.shape[3], ds)>>,
          LAMBDA i : stack.data[<<i[1], SlicePos(stack.shape[2], ds, i[2]),
                                  SlicePos(stack.shape[3], ds, i[3])>>])

NoExc == [type |-> "", at |-> ""]
Exc(type, at) == [type |-> type, at |-> at]

\* the functions clean calls, in call order, once it is past the indexing
CleanCalls(Z) == [z \in 1..(2 * Z) |-> IF z <= Z THEN "subtract_bg" ELSE "normalize"]

\* clean(ch) inside convert_one: [exc, val, calls]; vol[z, ch] raises
\* IndexError before subtract_bg is called, a zero stride raises ValueError
\* at the slicing
clean(vol, ch, sigma, ds) ==
    IF ~ChannelInRange(vol, ch)
    THEN [exc |-> Exc("IndexError", "clean"), val |-> <<>>, calls |-> <<>>]
    ELSE IF ds = 0
    THEN [exc |-> Exc("ValueError", "clean"), val |-> <<>>,
          calls |-> CleanCalls(vol.shape[1])]
    ELSE [exc |-> NoExc, val |-> Downsample(PerSlice(vol, ch, sigma), ds),
          calls |-> CleanCalls(vol.shape[1])]

\* meta.get(key, default)
DictGet(dict, key, default) == IF key \in DOMAIN dict THEN dict[key] ELSE default

\* float(meta.get(key, 1.0)) * 1e6
VoxelUm(meta, key) == FMul(DictGet(meta, key, Rat(1, 1)), Rat(1000000, 1))

\* tifffile: series[0].asarray() decodes the samples stored in the file
asarray(content) == [shape |-> content.shape, data |-> content.sample]

\* getattr(tif, "lsm_metadata", {}) or {}
LsmMeta(content) == IF content.lsm_metadata.isNone THEN <<>> ELSE content.lsm_metadata.dict

\* Path.name, Path.parent of a path given as its tuple of components
Name(path) == path[Len(path)]
Parent(path) == SubSeq(path, 1, Len(path) - 1)

\* Path.mkdir(parents=True, exist_ok=True)
Mkdir(fs, path) ==
    [fs EXCEPT !.dirs = @ \cup {SubSeq(path, 1, n) : n \in 1..Len(path)}]

\* lines 131-142: ZipFile(out_npz, "w") and its four writestr; the archive
\* replaces whatever was at out_npz
WriteBundle(fs, out_npz, r, g, b, meta_out) ==
    [fs EXCEPT !.files =
        [p \in DOMAIN @ \cup {out_npz} |->
           IF p = out_npz
           THEN [members |-> <<"r.npy", "g.npy", "b.npy", "meta.json">>,
                 r |-> r, g |-> g, b |-> b, meta |-> meta_out]
           ELSE @[p]]]

\* lines 119-127
MetaOut(meta, ds, sigma, in_path, ch_map) ==
    [vx_um |-> VoxelUm(meta, "VoxelSizeX"),
     vy_um |-> VoxelUm(meta, "VoxelSizeY"),
     vz_um |-> VoxelUm(meta, "VoxelSizeZ"),
     ds |-> ds, sigma |-> Rat(sigma, 1),
     file |-> Name(in_path), channel_map |-> ch_map]

Raised(fs, e, calls) == [exc |-> e, fs |-> fs, calls |-> calls, printed |-> <<>>]

LoadCalls == <<"TiffFile", "asarray">>
WriteCalls == <<"mkdir", "ZipFile", "writestr", "writestr", "writestr", "writestr">>

\* a bundle written in (b, g, r) order
Assemble_bgr(fs, in_path, out_npz, ds, sigma, ch_map, meta, c) ==
    IF c[1].exc # NoExc THEN Raised(fs, c[1].exc, LoadCalls \o c[1].calls)
    ELSE IF c[2].exc # NoExc THEN Raised(fs, c[2].exc, LoadCalls \o c[1].calls \o c[2].calls)
    ELSE IF c[3].exc # NoExc
    THEN Raised(fs, c[3].exc, LoadCalls \o c[1].calls \o c[2].calls \o c[3].calls)
    ELSE [exc |-> NoExc,
          fs |-> WriteBundle(Mkdir(fs, Parent(out_npz)), out_npz, c[3].val, c[2].val, c[1].val,
                             MetaOut(meta, ds, sigma, in_path, ch_map)),
          printed |-> <<[tag |-> "OK", name |-> Name(in_path)]>>,
          calls |-> LoadCalls \o c[1].calls \o c[2].calls \o c[3].calls \o WriteCalls]

\* an archive opened before the channels are processed: a failing channel
\* leaves the output folder and an empty archive behind
Assemble_eager(fs, in_path, out_npz, ds, sigma, ch_map, meta, c) ==
    IF \E j \in 1..3 : c[j].exc # NoExc
    THEN Raised([Mkdir(fs, Parent(out_npz)) EXCEPT !.files =
                    [p \in DOMAIN @ \cup {out_npz} |->
                       IF p = out_npz
                       THEN [members |-> <<>>, r |-> <<>>, g |-> <<>>, b |-> <<>>,
                             meta |-> <<>>]
                       ELSE @[p]]],
                c[CHOOSE j \in 1..3 : c[j].exc # NoExc /\ \A k \in 1..(j - 1) : c[k].exc = NoExc].exc,
                LoadCalls \o <<"mkdir", "ZipFile">>)
    ELSE [exc |-> NoExc,
          fs |-> WriteBundle(Mkdir(fs, Parent(out_npz)), out_npz, c[1].val, c[2].val, c[3].val,
                             MetaOut(meta, ds, sigma, in_path, ch_map)),
          printed |-> <<[tag |-> "OK", name |-> Name(in_path)]>>,
          calls |-> LoadCalls \o <<"mkdir", "ZipFile">> \o c[1].calls \o c[2].calls
                       \o c[3].calls \o <<"writestr", "writestr", "writestr", "writestr">>]

\* lines 113-145, c[1], c[2], c[3] being clean(src_for_r), clean(src_for_g),
\* clean(src_for_b): the first of them that raises ends the conversion
Assemble(fs, in_path, out_npz, ds, sigma, ch_map, meta, c) ==
    IF c[1].exc # NoExc THEN Raised(fs, c[1].exc, LoadCalls \o c[1].calls)
    ELSE IF c[2].exc # NoExc THEN Raised(fs, c[2].exc, LoadCalls \o c[1].calls \o c[2].calls)
    ELSE IF c[3].exc # NoExc
    THEN Raised(fs, c[3].exc, LoadCalls \o c[1].calls \o c[2].calls \o c[3].calls)
    ELSE [exc |-> NoExc,
          fs |-> WriteBundle(Mkdir(fs, Parent(out_npz)), out_npz, c[1].val, c[2].val, c[3].val,
                             MetaOut(meta, ds, sigma, in_path, ch_map)),
          printed |-> <<[tag |-> "OK", name |-> Name(in_path)]>>,
          calls |-> LoadCalls \o c[1].calls \o c[2].calls \o c[3].calls \o WriteCalls]

\* the channel count looked at before the rank
Validate_swapped(fs, in_path, out_npz, ds, sigma, ch_map, vol, meta) ==
    IF Len(vol.shape) >= 2 /\ vol.shape[2] < 3
    THEN Raised(fs, Exc("ValueError", "channels"), LoadCalls)
    ELSE IF Len(vol.shape) # 4 THEN Raised(fs, Exc("ValueError", "ndim"), LoadCalls)
    ELSE Assemble(fs, in_path, out_npz, ds, sigma, ch_map, meta,
                  Tabulated([j \in 1..3 |-> clean(vol, ch_map[j], sigma, ds)]))

\* lines 91-116, vol and meta being what the file held
Validate(fs, in_path, out_npz, ds, sigma, ch_map, vol, meta) ==
    IF Len(vol.shape) # 4 THEN Raised(fs, Exc("ValueError", "ndim"), LoadCalls)
    ELSE IF vol.shape[2] < 3 THEN Raised(fs, Exc("ValueError", "channels"), LoadCalls)
    ELSE Assemble(fs, in_path, out_npz, ds, sigma, ch_map, meta,
                  Tabulated([j \in 1..3 |-> clean(vol, ch_map[j], sigma, ds)]))

\* convert_one(in_path, out_npz, ds, sigma, ch_map) on filesystem fs:
\* [exc, fs, calls, printed] -- the exception raised (NoExc when it returns),
\* the filesystem it leaves, the calls it made, in order, and what it printed
convert_one(fs, in_path, out_npz, ds, sigma, ch_map) ==
    IF ~fs.files[in_path].readable
    THEN Raised(fs, Exc("TiffFileError", "open"), <<"TiffFile">>)
    ELSE Validate(fs, in_path, out_npz, ds, sigma, ch_map,
                  asarray(fs.files[in_path]), LsmMeta(fs.files[in_path]))

\* ------------------------------------------------------------------------
\* Strings and paths.  A string is the tuple of its characters; a path is
\* the tuple of its components (each a string).
\* ------------------------------------------------------------------------
\* the code point of a character
Ord(c) ==
    CASE c = " " -> 32 [] c = "+" -> 43 [] c = "," -> 44 [] c = "-" -> 45
      [] c = "." -> 46 [] c = "0" -> 48 [] c = "1" -> 49 [] c = "2" -> 50
      [] c = "3" -> 51 [] c = "4" -> 52 [] c = "5" -> 53
      [] c = "F" -> 70 [] c = "I" -> 73 [] c = "L" -> 76 [] c = "M" -> 77
      [] c = "S" -> 83 [] c = "T" -> 84
      [] c = "a" -> 97 [] c = "b" -> 98 [] c = "c" -> 99 [] c = "d" -> 100
      [] c = "e" -> 101 [] c = "f" -> 102 [] c = "i" -> 105 [] c = "l" -> 108
      [] c = "m" -> 109 [] c = "n" -> 110 [] c = "o" -> 111 [] c = "p" -> 112
      [] c = "r" -> 114 [] c = "s" -> 115 [] c = "t" -> 116 [] c = "u" -> 117
      [] c = "x" -> 120 [] c = "z" -> 122

\* str.lower() of one character
LowerChar(c) ==
    CASE c = "F" -> "f" [] c = "I" -> "i" [] c = "L" -> "l" [] c = "M" -> "m"
      [] c = "S" -> "s" [] c = "T" -> "t" [] OTHER -> c

Lower(str) == [i \in 1..Len(str) |-> LowerChar(str[i])]

\* a < b for strings: character by character, a proper prefix first
RECURSIVE StrLess(_, _)
StrLess(a, b) ==
    IF b = <<>> THEN FALSE
    ELSE IF a = <<>> THEN TRUE
    ELSE IF Ord(Head(a)) < Ord(Head(b)) THEN TRUE
    ELSE IF Ord(Head(b)) < Ord(Head(a)) THEN FALSE
    ELSE StrLess(Tail(a), Tail(b))

\* p < q for paths: component by component, as pathlib orders pure paths
RECURSIVE PathLess(_, _)
PathLess(p, q) ==
    IF q = <<>> THEN FALSE
    ELSE IF p = <<>> THEN TRUE
    ELSE IF StrLess(Head(p), Head(q)) THEN TRUE
    ELSE IF StrLess(Head(q), Head(p)) THEN FALSE
    ELSE PathLess(Tail(p), Tail(q))

\* str.rfind("."), 1-based; 0 when there is none
RFindDot(str) ==
    LET dots == {i \in 1..Len(str) : str[i] = "."}
    IN  IF dots = {} THEN 0 ELSE CHOOSE i \in dots : \A j \in dots : j <= i

\* Path.suffix: the last dot-part of the name, unless the name starts or
\* ends with that dot
Suffix(path) ==
    LET name == Name(path)
        i == RFindDot(name)
    IN  IF 1 < i /\ i < Len(name) THEN SubSeq(name, i, Len(name)) ELSE <<>>

\* Path.stem
Stem(path) ==
    LET name == Name(path)
        i == RFindDot(name)
    IN  IF 1 < i /\ i < Len(name) THEN SubSeq(name, 1, i - 1) ELSE name

IsFile(fs, path) == path \in DOMAIN fs.files
IsDir(fs, path) == path \in fs.dirs

IsPrefix(p, q) == Len(p) <= Len(q) /\ SubSeq(q, 1, Len(p)) = p

\* sorted(S) for a set of paths
RECURSIVE Sorted(_)
Sorted(S) ==
    IF S = {} THEN <<>>
    ELSE LET m == CHOOSE x \in S : \A y \in S : x = y \/ PathLess(x, y)
         IN  <<m>> \o Sorted(S \ {m})

\* ------------------------------------------------------------------------
\* File discovery
\* ------------------------------------------------------------------------
ExtLsm == {<<".", "l", "s", "m">>, <<".", "L", "S", "M">>}
ExtTiff == {<<".", "t", "i", "f">>, <<".", "t", "i", "f", "f">>,
            <<".", "T", "I", "F">>, <<".", "T", "I", "F", "F">>}

discover_files(fs, root, include_tiff, recursive) ==
    LET exts == IF include_tiff THEN ExtLsm \cup ExtTiff ELSE ExtLsm
        entries == DOMAIN fs.files \cup fs.dirs
        \* root.rglob("*"): everything below root; root.iterdir(): its children
        listed == IF recursive
                  THEN {p \in entries : IsPrefix(root, p) /\ Len(p) > Len(root)}
                  ELSE {p \in entries : IsPrefix(root, p) /\ Len(p) = Len(root) + 1}
    IN  IF IsFile(fs, root) THEN <<root>>
        ELSE Sorted({p \in listed : IsFile(fs, p) /\ Suffix(p) \in exts})

\* ------------------------------------------------------------------------
\* CLI: parsing --map
\* ------------------------------------------------------------------------
\* str.split(sep): the pieces between the separators (a string without one is
\* a single piece, the empty string included)
RECURSIVE Split(_, _)
Split(str, sep) ==
    LET seps == {i \in 1..Len(str) : str[i] = sep}
    IN  IF seps = {} THEN <<str>>
        ELSE LET i == CHOOSE j \in seps : \A k \in seps : j <= k
             IN  <<SubSeq(str, 1, i - 1)>> \o Split(SubSeq(str, i + 1, Len(str)), sep)

\* str.strip()
RECURSIVE Strip(_)
Strip(str) ==
    IF str = <<>> THEN str
    ELSE IF Head(str) = " " THEN Strip(Tail(str))
    ELSE IF str[Len(str)] = " " THEN Strip(SubSeq(str, 1, Len(str) - 1))
    ELSE str

IsDigit(c) == c \in {"0", "1", "2", "3", "4", "5"}
DigitVal(c) == Ord(c) - Ord("0")

RECURSIVE DigitsVal(_)
DigitsVal(ds) ==
    IF ds = <<>> THEN 0 ELSE 10 * DigitsVal(SubSeq(ds, 1, Len(ds) - 1)) + DigitVal(ds[Len(ds)])

\* int(str): [ok, val]; ok is FALSE where Python raises ValueError
ParseInt(str) ==
    LET t == Strip(str)
        signed == t # <<>> /\ Head(t) \in {"+", "-"}
        digits == IF signed THEN Tail(t) ELSE t
    IN  IF digits # <<>> /\ \A i \in 1..Len(digits) : IsDigit(digits[i])
        THEN [ok |-> TRUE,
              val |-> IF signed /\ Head(t) = "-" THEN -DigitsVal(digits) ELSE DigitsVal(digits)]
        ELSE [ok |-> FALSE, val |-> 0]

\* line 217, vals being the integers of line 216
CheckMap(vals) ==
    IF Len(vals) = 3 /\ \A i \in 1..Len(vals) : vals[i] >= 0
    THEN [ok |-> TRUE, val |-> vals]
    ELSE [ok |-> FALSE, val |-> <<>>]

\* line 216, toks being the pieces of the argument: int() of each, stripped
IntsOf(toks) ==
    IF \A i \in 1..Len(toks) : ParseInt(Strip(toks[i])).ok
    THEN CheckMap([i \in 1..Len(toks) |-> ParseInt(Strip(toks[i])).val])
    ELSE [ok |-> FALSE, val |-> <<>>]

\* main's "Parse and validate --map": [ok, val]; ok is FALSE where main raises
\* SystemExit
ParseMap(str) == IntsOf(Split(str, ","))

\* ------------------------------------------------------------------------
\* State
\* ------------------------------------------------------------------------
VARIABLES
    pc,         \* where the program is: "start", "discover", "dispatch", "loop",
                \* "done" in main; "call", "returned" around a direct convert_one
    args,       \* the parsed command line (argparse's namespace)
    fs,         \* the filesystem: [dirs, files], files maps a path to its content
    ch_map,     \* main's ch_map, <<>> until it is parsed
    files,      \* main's files, the result of discover_files
    idx,        \* the position of the batch loop in files (1-based)
    stdout,     \* the lines printed so far
    exit,       \* <<>> while running, <<status>> once the process has exited
    log         \* history: one record per call of convert_one, in call order

vars == <<pc, args, fs, ch_map, files, idx, stdout, exit, log>>

ExitOk == 0
ExitFail == 1

NpzSuffix == <<".", "n", "p", "z">>

\* the history record of one call of convert_one that gave res
CallRecord(in_path, out_npz, res) ==
    [in |-> in_path, out |-> out_npz, exc |-> res.exc, calls |-> res.calls, before |-> fs]

\* one call of convert_one from main or from a caller of the module: the
\* filesystem and the output it leaves, and the record of it
Called(in_path, out_npz, res) ==
    /\ fs' = res.fs
    /\ log' = Append(log, CallRecord(in_path, out_npz, res))

Call(in_path, out_npz) ==
    convert_one(fs, in_path, out_npz, args.ds, args.sigma, ch_map)

\* ------------------------------------------------------------------------
\* main
\* ------------------------------------------------------------------------
\* a malformed --map replaced by the default map
MapParsed_lenient(m) ==
    /\ ch_map' = IF m.ok THEN m.val ELSE <<2, 0, 1>>
    /\ pc' = "discover"
    /\ UNCHANGED <<stdout, exit>>

\* lines 214-220, m being the parsed --map: SystemExit(message) when it is
\* malformed
MapParsed(m) ==
    IF m.ok
    THEN /\ ch_map' = m.val
         /\ pc' = "discover"
         /\ UNCHANGED <<stdout, exit>>
    ELSE /\ pc' = "done"
         /\ exit' = <<ExitFail>>
         /\ stdout' = Append(stdout, [tag |-> "MAPERR", name |-> <<>>])
         /\ UNCHANGED ch_map

ParseArgs ==
    /\ pc = "start"
    /\ MapParsed(ParseMap(args.map))
    /\ UNCHANGED <<args, fs, files, idx, log>>

\* a run that goes on with no file found
Discovered_unchecked(found) ==
    /\ files' = found
    /\ pc' = "dispatch"
    /\ UNCHANGED <<stdout, exit>>

\* lines 225-228, found being the result of discover_files: sys.exit(1) when
\* it is empty
Discovered(found) ==
    /\ files' = found
    /\ IF found = <<>>
       THEN /\ stdout' = Append(stdout, [tag |-> "NOFILES", name |-> <<>>])
            /\ exit' = <<ExitFail>>
            /\ pc' = "done"
       ELSE /\ pc' = "dispatch"
            /\ UNCHANGED <<stdout, exit>>

Discover ==
    /\ pc = "discover"
    /\ Discovered(discover_files(fs, args.input, args.include_tiff, args.recursive))
    /\ UNCHANGED <<args, fs, ch_map, idx, log>>

\* lines 232-235: where a single input file is written
SingleOut ==
    IF IsDir(fs, args.output) \/ Lower(Suffix(args.output)) # NpzSuffix
    THEN args.output \o <<Stem(args.input) \o NpzSuffix>>
    ELSE args.output

\* line 236 has given res: an exception is not caught and ends the process
\* with a traceback
SingleDone(out_npz, res) ==
    /\ Called(args.input, out_npz, res)
    /\ stdout' = stdout \o res.printed
    /\ exit' = IF res.exc = NoExc THEN <<ExitOk>> ELSE <<ExitFail>>

\* lines 230-236: a single input file
ConvertSingle ==
    /\ pc = "dispatch"
    /\ IsFile(fs, args.input)
    /\ SingleDone(SingleOut, Call(args.input, SingleOut))
    /\ pc' = "done"
    /\ UNCHANGED <<args, ch_map, files, idx>>

\* lines 237-239: batch mode creates the output folder
BatchMkdir ==
    /\ pc = "dispatch"
    /\ ~IsFile(fs, args.input)
    /\ fs' = Mkdir(fs, args.output)
    /\ idx' = 1
    /\ pc' = "loop"
    /\ UNCHANGED <<args, ch_map, files, stdout, exit, log>>

\* line 241: where the batch loop writes input p
BatchOut(p) == args.output \o <<Stem(p) \o NpzSuffix>>

\* lines 242-245 have given res for input p: an Exception is caught and printed
BatchDone(p, res) ==
    /\ Called(p, BatchOut(p), res)
    /\ stdout' = IF res.exc = NoExc
                 THEN stdout \o res.printed
                 ELSE Append(stdout \o res.printed, [tag |-> "ERR", name |-> Name(p)])

\* a batch loop that a failed conversion ends
BatchConvert_abort ==
    /\ pc = "loop"
    /\ idx <= Len(files)
    /\ BatchDone(files[idx], Call(files[idx], BatchOut(files[idx])))
    /\ idx' = IF Call(files[idx], BatchOut(files[idx])).exc = NoExc
              THEN idx + 1 ELSE Len(files) + 1
    /\ UNCHANGED <<pc, args, ch_map, files, exit>>

\* lines 240-245: one iteration of the batch loop
BatchConvert ==
    /\ pc = "loop"
    /\ idx <= Len(files)
    /\ BatchDone(files[idx], Call(files[idx], BatchOut(files[idx])))
    /\ idx' = idx + 1
    /\ UNCHANGED <<pc, args, ch_map, files, exit>>

\* the loop is exhausted: main returns and the interpreter exits with status 0
BatchEnd ==
    /\ pc = "loop"
    /\ idx > Len(files)
    /\ pc' = "done"
    /\ exit' = <<ExitOk>>
    /\ UNCHANGED <<args, fs, ch_map, files, idx, stdout, log>>

\* convert_one has returned or raised, giving res
Returned(res) ==
    /\ Called(args.input, args.output, res)
    /\ stdout' = stdout \o res.printed

\* a direct call convert_one(args.input, args.output, args.ds, args.sigma, ch_map)
CallConvertOne ==
    /\ pc = "call"
    /\ Returned(Call(args.input, args.output))
    /\ pc' = "returned"
    /\ UNCHANGED <<args, ch_map, files, idx, exit>>

\* ------------------------------------------------------------------------
\* Inputs
\* ------------------------------------------------------------------------
\* the sample stored at index i of a source file: seed 0 is a constant
\* volume, the other seeds vary along every axis; seed 1 is unsigned, the
\* seeds above it reach below zero (a signed sample type)
Sample(seed, i) ==
    IF seed = 0 THEN MaxVal
    ELSE ((seed + seed * SeqSum([k \in 1..Len(i) |-> k * i[k]])) % (MaxVal + 1)) - (seed - 1)

NoMeta == [isNone |-> TRUE, dict |-> <<>>]
Meta(dict) == [isNone |-> FALSE, dict |-> dict]

Image(shape, seed, meta) ==
    [readable |-> TRUE, shape |-> shape,
     sample |-> Tabulated([i \in Indices(shape) |-> Sample(seed, i)]), lsm_metadata |-> meta]

\* a file tifffile cannot decode
Unreadable == [readable |-> FALSE, shape |-> <<>>, sample |-> <<>>, lsm_metadata |-> NoMeta]

\* a bundle left at the output path by an earlier run
StaleBundle == [members |-> <<"r.npy", "g.npy", "b.npy", "meta.json">>,
                r |-> <<>>, g |-> <<>>, b |-> <<>>, meta |-> <<>>]

VoxelKeys == {"VoxelSizeX", "VoxelSizeY", "VoxelSizeZ"}
\* voxel sizes in meters: 0.1 um and 0.25 um
VoxelVals == {Rat(1, 10000000), Rat(1, 4000000)}
\* every lsm_metadata: None, or a dict holding any subset of the three keys
Metas ==
    {NoMeta} \cup
    {Meta(d) : d \in UNION {[K -> VoxelVals] : K \in SUBSET VoxelKeys}}
FullMeta == Meta([k \in VoxelKeys |-> Rat(1, 10000000)])

D_data == <<"d", "a", "t", "a">>
D_sub == <<"s", "u", "b">>
D_out == <<"o", "u", "t">>
D_x_lsm == <<"x", ".", "l", "s", "m">>
F_a_lsm == <<"a", ".", "l", "s", "m">>
F_a_tif == <<"a", ".", "t", "i", "f">>
F_b_lsm == <<"b", ".", "l", "s", "m">>
F_c_LSM == <<"c", ".", "L", "S", "M">>
F_d_lsm == <<"d", ".", "l", "s", "m">>
F_notes_txt == <<"n", "o", "t", "e", "s", ".", "t", "x", "t">>
F_res_npz == <<"r", "e", "s", ".", "n", "p", "z">>
F_in_npz == <<"i", "n", ".", "n", "p", "z">>
F_in_lsm == <<"i", "n", ".", "l", "s", "m">>

\* the files an input folder may hold
Tree ==
    [p \in {<<D_data, F_a_lsm>>, <<D_data, F_a_tif>>, <<D_data, F_b_lsm>>,
            <<D_data, F_c_LSM>>, <<D_data, D_sub, F_a_lsm>>,
            <<D_data, D_sub, F_d_lsm>>, <<D_data, F_notes_txt>>} |->
       CASE p = <<D_data, F_a_lsm>> -> Image(<<1, 3, 1, 2>>, 1, FullMeta)
         [] p = <<D_data, F_a_tif>> -> Image(<<1, 3, 1, 2>>, 2, NoMeta)
         [] p = <<D_data, F_b_lsm>> -> Image(<<1, 2, 1, 2>>, 1, FullMeta)
         [] p = <<D_data, F_c_LSM>> -> Image(<<1, 4, 1, 2>>, 1, FullMeta)
         [] p = <<D_data, D_sub, F_a_lsm>> -> Image(<<1, 3, 2, 1>>, 2, FullMeta)
         [] p = <<D_data, D_sub, F_d_lsm>> -> Image(<<3, 1, 2>>, 1, FullMeta)
         [] p = <<D_data, F_notes_txt>> -> Unreadable]

\* "2,0,1" and other --map arguments
Digit(n) == CASE n = 0 -> "0" [] n = 1 -> "1" [] n = 2 -> "2" [] n = 3 -> "3"
              [] n = 4 -> "4" [] n = 5 -> "5"
MapString(a, b, c) == <<Digit(a), ",", Digit(b), ",", Digit(c)>>
MapArgs ==
    {MapString(2, 0, 1), MapString(0, 0, 0), MapString(0, 1, 3),
     <<" ", "2", ",", "+", "0", " ", ",", "1">>,
     <<"2", ",", "0">>, <<"2", ",", "0", ",", "1", ",", "0">>,
     <<"-", "1", ",", "0", ",", "1">>, <<"2", ",", "x", ",", "1">>,
     <<"2", ",", ",", "1">>, <<>>}

\* main started on a folder, or on one file of it, holding at most MaxFiles
\* of the files of Tree
Init ==
    /\ pc = "start"
    /\ \E present \in SUBSET DOMAIN Tree, outExists \in BOOLEAN :
         /\ Cardinality(present) <= MaxFiles
         /\ fs = [dirs |-> {<<D_data>>, <<D_data, D_sub>>, <<D_data, D_x_lsm>>}
                            \cup (IF outExists THEN {<<D_out>>} ELSE {}),
                  files |-> [p \in present |-> Tree[p]]]
         /\ \E input \in {<<D_data>>} \cup present,
               output \in {<<D_out>>} \cup (IF outExists THEN {} ELSE {<<D_out, F_res_npz>>}),
               map \in MapArgs, recursive \in BOOLEAN, include_tiff \in BOOLEAN :
              args = [input |-> input, output |-> output, ds |-> 2, sigma |-> 0,
                      map |-> map, recursive |-> recursive, include_tiff |-> include_tiff]
    /\ ch_map = <<>>
    /\ files = <<>>
    /\ idx = 0
    /\ stdout = <<>>
    /\ exit = <<>>
    /\ log = <<>>

Next ==
    \/ ParseArgs
    \/ Discover
    \/ ConvertSingle
    \/ BatchMkdir
    \/ BatchConvert
    \/ BatchEnd

Spec == Init /\ [][Next]_vars

\* a direct call of convert_one on one source file; with stale, a bundle of an
\* earlier run is at the output path
InitCall(shapes, seeds, metas, dss, sigmas, maps, stales) ==
    /\ pc = "call"
    /\ \E shape \in shapes, seed \in seeds, meta \in metas, stale \in stales :
         fs = [dirs |-> IF stale THEN {<<D_out>>} ELSE {},
               files |-> [p \in {<<F_in_lsm>>} \cup (IF stale THEN {<<D_out, F_in_npz>>} ELSE {})
                            |-> IF p = <<F_in_lsm>> THEN Image(shape, seed, meta)
                                ELSE StaleBundle]]
    /\ \E ds \in dss, sigma \in sigmas :
         args = [input |-> <<F_in_lsm>>, output |-> <<D_out, F_in_npz>>, ds |-> ds,
                 sigma |-> sigma, map |-> <<>>, recursive |-> FALSE, include_tiff |-> FALSE]
    /\ ch_map \in maps
    /\ files = <<>>
    /\ idx = 0
    /\ stdout = <<>>
    /\ exit = <<>>
    /\ log = <<>>

NextCall == CallConvertOne

\* the channel processor over every small volume, stride and sigma
InitProc ==
    InitCall({<<z, 3, y, x>> : z \in 1..MaxZ, y \in 1..MaxY, x \in 1..MaxX},
             0..MaxSeed, {FullMeta}, (-1)..MaxDs, (-1)..MaxSigma, {<<2, 0, 1>>}, {FALSE})

SpecProc == InitProc /\ [][NextCall]_vars

\* validation and channel mapping: every rank and channel count, every map
InitConv ==
    InitCall({<<2, 2, 2>>, <<1, 1, 3, 1, 2>>} \cup {<<1, c, 1, 2>> : c \in 1..MaxC},
             {1}, {FullMeta}, {0, 1, MaxDs}, {0, MaxSigma},
             (0..(MaxC - 1)) \X (0..(MaxC - 1)) \X (0..(MaxC - 1)), BOOLEAN)

SpecConv == InitConv /\ [][NextCall]_vars

\* voxel geometry: every lsm_metadata
InitGeom ==
    InitCall({<<1, 3, 1, 2>>}, {1}, Metas, 1..MaxDs, {0}, {<<2, 0, 1>>}, {FALSE})

SpecGeom == InitGeom /\ [][NextCall]_vars

\* ------------------------------------------------------------------------
\* Properties
\* ------------------------------------------------------------------------
Range(seq) == {seq[i] : i \in 1..Len(seq)}
BatchMode == ~IsFile(fs, args.input)
Inputs(history) == [i \in 1..Len(history) |-> history[i].in]
Succeeded(history) == {i \in 1..Len(history) : history[i].exc = NoExc}
Failed(history) == {i \in 1..Len(history) : history[i].exc # NoExc}
Lines(tag) == {i \in 1..Len(stdout) : stdout[i].tag = tag}
\* the bundles under the output folder
Bundles == {p \in DOMAIN fs.files : IsPrefix(<<D_out>>, p)}

\* the files of the input folder with a configured extension: its children,
\* or with --recursive everything below it
Matching ==
    {p \in DOMAIN fs.files :
        /\ IsPrefix(args.input, p)
        /\ IF args.recursive THEN Len(p) > Len(args.input) ELSE Len(p) = Len(args.input) + 1
        /\ \/ Suffix(p) \in ExtLsm
           \/ args.include_tiff /\ Suffix(p) \in ExtTiff}

\* C1: in batch mode the discovered files are the matching files in ascending
\* path order, and convert_one is called on them one by one in that order: at
\* every point of the loop the calls made are exactly the files before the
\* loop position, whether they failed or not, and at the end every file has
\* been attempted exactly once.
C1_BatchAttemptsAll ==
    BatchMode /\ pc \in {"loop", "done"} /\ files # <<>> =>
        /\ Range(files) = Matching
        /\ \A i \in 1..Len(files), j \in 1..Len(files) : i < j => PathLess(files[i], files[j])
        /\ pc = "loop" => Inputs(log) = SubSeq(files, 1, idx - 1)
        /\ pc = "done" => Inputs(log) = files

\* a finished batch run whose first file failed and whose later file converted
C1_Witness ==
    /\ BatchMode /\ pc = "done" /\ Len(files) >= 2
    /\ log[1].exc # NoExc
    /\ log[Len(files)].exc = NoExc

\* C2 as stated: with a well-formed map, no discovered file means a non-zero
\* status and at least one discovered file means status zero, whatever the
\* conversions did.
C2_ExitZeroIfAnyFile ==
    pc = "done" /\ ParseMap(args.map).ok =>
        /\ files = <<>> => exit # <<ExitOk>>
        /\ files # <<>> => exit = <<ExitOk>>

\* C2 amended: with a well-formed map, no discovered file means a non-zero
\* status; in batch mode at least one discovered file means status zero and
\* one logged error per failed conversion; for a single input file the status
\* is zero exactly when its conversion did not raise.
C2_ExitStatus ==
    pc = "done" /\ ParseMap(args.map).ok =>
        /\ files = <<>> => exit = <<ExitFail>>
        /\ files # <<>> /\ BatchMode =>
              /\ exit = <<ExitOk>>
              /\ Cardinality(Lines("ERR")) = Cardinality(Failed(log))
              /\ Cardinality(Lines("OK")) = Cardinality(Succeeded(log))
        /\ files # <<>> /\ ~BatchMode =>
              /\ Len(log) = 1
              /\ exit = (IF log[1].exc = NoExc THEN <<ExitOk>> ELSE <<ExitFail>>)

\* a folder of two valid files and one with fewer than three channels: two
\* bundles, one logged error, status zero
C2_Witness ==
    /\ pc = "done" /\ BatchMode /\ Len(files) = 3
    /\ Cardinality(Succeeded(log)) = 2
    /\ \E i \in Failed(log) : log[i].exc = Exc("ValueError", "channels")
    /\ Cardinality(Bundles) = 2
    /\ Cardinality(Lines("ERR")) = 1
    /\ exit = <<ExitOk>>

\* C3 as stated: after a batch run every successfully converted file has its
\* own bundle: there are as many bundles as successful conversions, and no
\* two conversions wrote the same path.
C3_OneBundlePerFile ==
    pc = "done" /\ BatchMode /\ files # <<>> =>
        /\ Cardinality(Bundles) = Cardinality(Succeeded(log))
        /\ \A i \in Succeeded(log), j \in Succeeded(log) : i # j => log[i].out # log[j].out

\* the volume the converted file held, and the bundle at the output path
Vol == asarray(log[1].before.files[log[1].in])
Bundle == fs.files[log[1].out]
Out(j) == CASE j = 1 -> Bundle.r [] j = 2 -> Bundle.g [] j = 3 -> Bundle.b
ReturnedOk == pc = "returned" /\ log[1].exc = NoExc
RaisedExc == pc = "returned" /\ log[1].exc # NoExc
Count(seq, S) == Cardinality({i \in 1..Len(seq) : seq[i] \in S})

\* C4 as stated: the bundle records each voxel size in micrometers, the value
\* of the source metadata in meters times 10^6 when the file has it and
\* exactly 1.0 when it does not.
C4_VoxelFallbackOne ==
    ReturnedOk =>
        \A key \in VoxelKeys :
            LET meta == LsmMeta(log[1].before.files[log[1].in])
                um == CASE key = "VoxelSizeX" -> Bundle.meta.vx_um
                        [] key = "VoxelSizeY" -> Bundle.meta.vy_um
                        [] key = "VoxelSizeZ" -> Bundle.meta.vz_um
            IN  IF key \in DOMAIN meta
                THEN um = Rat(meta[key].n * 1000000, meta[key].d)
                ELSE um = Rat(1, 1)

\* C5: a volume that is not 4-dimensional is rejected with the dimensionality
\* error whatever its second extent is, a 4-dimensional one with fewer than
\* three channels with the channel-count error, and in both cases the file
\* has been read and nothing else called: no clean, subtract_bg or normalize.
C5_RejectedBeforeProcessing ==
    pc = "returned" =>
        /\ Len(Vol.shape) # 4 =>
              /\ log[1].exc = Exc("ValueError", "ndim")
              /\ log[1].calls = LoadCalls
        /\ Len(Vol.shape) = 4 /\ Vol.shape[2] < 3 =>
              /\ log[1].exc = Exc("ValueError", "channels")
              /\ log[1].calls = LoadCalls

\* a 4-dimensional volume of two channels, rejected with background
\* subtraction switched on
C5_Witness ==
    /\ pc = "returned"
    /\ Len(Vol.shape) = 4 /\ Vol.shape[2] = 2
    /\ args.sigma > 0 /\ args.ds > 0
    /\ log[1].exc = Exc("ValueError", "channels")
    /\ log[1].calls = LoadCalls

\* the --map arguments that are not exactly three comma-separated
\* non-negative integers
Malformed ==
    {<<"2", ",", "0">>, <<"2", ",", "0", ",", "1", ",", "0">>,
     <<"-", "1", ",", "0", ",", "1">>, <<"2", ",", "x", ",", "1">>,
     <<"2", ",", ",", "1">>, <<>>}

\* C6: with a malformed --map the only step the program takes ends it with a
\* non-zero status, and that step discovers no file, calls convert_one on
\* none and leaves the filesystem as it was, for a single input file and for
\* a folder alike.
C6_MalformedMapAborts ==
    [][args.map \in Malformed =>
          /\ pc' = "done"
          /\ exit' = <<ExitFail>>
          /\ files' = <<>> /\ log' = <<>>
          /\ fs' = fs]_vars

\* a run on a folder with convertible files, ended by a malformed map
C6_Witness ==
    /\ args.map \in Malformed
    /\ pc = "done" /\ exit = <<ExitFail>>
    /\ BatchMode /\ <<D_data, F_a_lsm>> \in DOMAIN fs.files
    /\ log = <<>> /\ Bundles = {}

\* C7: for a 4-dimensional volume with C >= 3 channels, a non-zero stride and
\* a map of indices below C, the conversion succeeds, output channel r, g, b
\* is the channel processor applied to source channel ch_map[1], ch_map[2],
\* ch_map[3] with the call's sigma and ds, two outputs mapped to one source
\* are equal, and the bundle records the map in (r, g, b) order.
C7_ChannelMapping ==
    /\ pc = "returned" /\ Len(Vol.shape) = 4 /\ Vol.shape[2] >= 3 /\ args.ds # 0
       /\ (\A j \in 1..3 : ch_map[j] < Vol.shape[2]) =>
          /\ log[1].exc = NoExc
          /\ \A j \in 1..3 :
                Out(j) = Downsample(PerSlice(Vol, ch_map[j], args.sigma), args.ds)
          /\ \A j \in 1..3, k \in 1..3 : ch_map[j] = ch_map[k] => Out(j) = Out(k)
          /\ Bundle.meta.channel_map = ch_map

\* r and g both taken from source channel 2, b from another channel that
\* processes to something else
C7_Witness ==
    /\ ReturnedOk
    /\ ch_map[1] = 2 /\ ch_map[2] = 2 /\ ch_map[3] # 2
    /\ Bundle.r = Bundle.g /\ Bundle.b # Bundle.r
    /\ Bundle.meta.channel_map = ch_map

InUnit(x) == x.k = "fin" /\ 0 <= x.n /\ x.n <= x.d
\* the percentile window of a slice is empty
Degenerate(img) == Percentile(img, LoPct) = Percentile(img, HiPct)

Ceil(n, k) == CHOOSE m \in 0..n : m * k >= n /\ (m - 1) * k < n

\* out keeps every k-th row and column of full, and every slice of it
EveryKth(out, full, k) ==
    /\ out.shape = <<full.shape[1], Ceil(full.shape[2], k), Ceil(full.shape[3], k)>>
    /\ DOMAIN out.data = Indices(out.shape)
    /\ \A i \in DOMAIN out.data : out.data[i] = full.data[<<i[1], i[2] * k, i[3] * k>>]

\* C9: for a stride k >= 1 every output channel has shape
\* (Z, ceil(Y / k), ceil(X / k)), and its element [z, i, j] is element
\* [z, i * k, j * k] of the full-resolution processed channel, which has the
\* extents (Z, Y, X) of the source.
C9_Downsampling ==
    ReturnedOk /\ args.ds >= 1 =>
        \A j \in 1..3 :
            /\ Out(j).shape = <<Vol.shape[1], Ceil(Vol.shape[3], args.ds),
                                Ceil(Vol.shape[4], args.ds)>>
            /\ EveryKth(Out(j), PerSlice(Vol, ch_map[j], args.sigma), args.ds)

\* three columns kept at stride 2: two remain, the last one from column 2
C9_Witness ==
    /\ ReturnedOk
    /\ args.ds = 2 /\ Vol.shape[4] = 3 /\ Vol.shape[3] = 2 /\ args.sigma > 0
    /\ Bundle.r.shape = <<Vol.shape[1], 1, 2>>
    /\ Bundle.r.data[<<0, 0, 1>>] # Bundle.r.data[<<0, 0, 0>>]

\* C10: when convert_one raises, the filesystem is as it was before the call
\* (no output folder created, no bundle created or overwritten) and neither
\* mkdir nor ZipFile has been called; when it returns, all the subtract_bg
\* and normalize calls of the three channels come before the first of them.
C10_NoPartialBundle ==
    pc = "returned" =>
        /\ log[1].exc # NoExc =>
              /\ fs = log[1].before
              /\ Count(log[1].calls, {"mkdir", "ZipFile", "writestr"}) = 0
        /\ log[1].exc = NoExc =>
              \A i \in 1..Len(log[1].calls) :
                  log[1].calls[i] \in {"mkdir", "ZipFile", "writestr"} =>
                      Count(SubSeq(log[1].calls, 1, i), {"subtract_bg", "normalize"})
                          = 3 * 2 * Vol.shape[1]

\* the blue channel's index is out of range after red and green were
\* processed: the bundle of an earlier run is still there, untouched
C10_Witness ==
    /\ RaisedExc
    /\ log[1].exc = Exc("IndexError", "clean")
    /\ Count(log[1].calls, {"normalize"}) = 2 * Vol.shape[1]
    /\ log[1].out \in DOMAIN fs.files
    /\ fs.files[log[1].out] = StaleBundle
    /\ fs = log[1].before

====
